---- MODULE Spec2Model ----
(***************************************************************************)
(* Model of the Tracee ingestion and analytics service                     *)
(* (src/spr/mongo/main.py): upload_tracee, get_stats, get_specific_data.   *)
(*                                                                         *)
(* Text is modelled by TLA+ strings (TLC evaluates Len, \o and SubSeq on   *)
(* them), so substring tests, suffix tests, lower-casing and line          *)
(* splitting are computed character by character as the Python code does.  *)
(***************************************************************************)
EXTENDS Integers, Sequences, FiniteSets, TLC

VARIABLES
    clock,            \* datetime.utcnow(), in whole seconds (index into Stamps)
    db,               \* db[name]: the documents of collection name, in stored order
    indexes,          \* indexes[name]: the index keys created on collection name
    pc,               \* pc[r]: where request r of upload_tracee stands
    filename,         \* file.filename of request r
    stream,           \* the uploaded bytes of request r
    pos,              \* how many bytes of the stream request r has read
    batch,            \* the local list batch of request r
    inserted_count,   \* the local counter inserted_count of request r
    collection_name,  \* the local collection_name of request r
    response,         \* what request r returned or raised
    reads,            \* number of file.read calls request r has made
    writes,           \* number of insert_many calls request r has issued
    written,          \* the documents the store persisted for request r, in order
    failure,          \* the store's record of the insert_many call it failed for r
    query,            \* the parameters of the last get_stats or get_specific_data
    result            \* what that request returned or raised

ingestVars == <<clock, db, indexes, pc, filename, stream, pos, batch,
                inserted_count, collection_name, response, reads, writes,
                written, failure>>
analyticsVars == <<query, result>>
vars == <<ingestVars, analyticsVars>>

None == "None"

(***************************************************************************)
(* Bounds of the model.                                                    *)
(***************************************************************************)
\* Concurrent upload requests.
NReq == 2
\* Seconds the clock can advance.
MaxClock == 1
\* Lines of an uploaded stream.
MaxLines == 4
\* file.read(1024 * 1024), scaled down (main.py:72).
ChunkSize == 12
\* batch_size = 1000, scaled down (main.py:66).
batch_size == 2

Reqs == 1..NReq

Min(a, b) == IF a < b THEN a ELSE b

(***************************************************************************)
(* Text helpers: Python's str operations.                                  *)
(***************************************************************************)
CharAt(s, i) == SubSeq(s, i, i)

\* sub in s
Contains(s, sub) ==
    \E i \in 1..(Len(s) - Len(sub) + 1) : SubSeq(s, i, i + Len(sub) - 1) = sub

\* s.endswith(suffix)
EndsWith(s, suffix) ==
    /\ Len(suffix) <= Len(s)
    /\ SubSeq(s, Len(s) - Len(suffix) + 1, Len(s)) = suffix

UpperLetters == "ABCDEFGHIJKLMNOPQRSTUVWXYZ"
LowerLetters == "abcdefghijklmnopqrstuvwxyz"

LowerChar(c) ==
    IF \E i \in 1..Len(UpperLetters) : CharAt(UpperLetters, i) = c
    THEN CharAt(LowerLetters, CHOOSE i \in 1..Len(UpperLetters) : CharAt(UpperLetters, i) = c)
    ELSE c

\* s.lower()
RECURSIVE Lower(_)
Lower(s) == IF s = "" THEN "" ELSE LowerChar(CharAt(s, 1)) \o Lower(SubSeq(s, 2, Len(s)))

\* s.splitlines(), for text whose only line boundary is "\n"
RECURSIVE splitlines(_)
splitlines(s) ==
    IF s = "" THEN <<>>
    ELSE IF \E i \in 1..Len(s) : CharAt(s, i) = "\n"
         THEN LET i == CHOOSE k \in 1..Len(s) :
                          /\ CharAt(s, k) = "\n"
                          /\ \A j \in 1..(k - 1) : CharAt(s, j) # "\n"
              IN <<SubSeq(s, 1, i - 1)>> \o splitlines(SubSeq(s, i + 1, Len(s)))
         ELSE <<s>>

(***************************************************************************)
(* json.loads on one line.  The JSON texts of the model are the objects    *)
(* "{a}" and "{b}", standing for two distinct events; every other text     *)
(* raises JSONDecodeError.                                                 *)
(***************************************************************************)
EventIds == {"a", "b"}

JsonValid(line) ==
    /\ Len(line) = 3
    /\ CharAt(line, 1) = "{"
    /\ CharAt(line, 3) = "}"
    /\ CharAt(line, 2) \in EventIds

json_loads(line) == [id |-> CharAt(line, 2)]

(***************************************************************************)
(* upload_tracee (main.py:41-102).                                         *)
(***************************************************************************)
allowed_extensions == <<".json", ".jsonl", ".log">>

\* Faulty variant: the extension is looked for anywhere in the name, not at its end.
ExtensionAllowed_anywhere(name) ==
    \E i \in 1..Len(allowed_extensions) : Contains(Lower(name), allowed_extensions[i])

\* file.filename.lower().endswith(allowed_extensions)
ExtensionAllowed(name) ==
    \E i \in 1..Len(allowed_extensions) : EndsWith(Lower(name), allowed_extensions[i])

\* strftime('%Y%m%d_%H%M%S') of the clock's seconds
Stamps == <<"20260101_000000", "20260101_000001", "20260101_000002">>

\* uuid.uuid4().hex[:6]: the values the model draws from
Suffixes == {"0a1b2c", "ffffff"}

\* f"tracee_{...}_{...}"
CollectionName(now, suffix) == "tracee_" \o Stamps[now + 1] \o "_" \o suffix

IndexKeys == {"timestamp", "processId", "eventName", "container.id"}

\* collection.create_index: the collection comes into being if it is not there
create_indexes(name) ==
    /\ db' = IF name \in DOMAIN db THEN db ELSE db @@ (name :> <<>>)
    /\ indexes' = IF name \in DOMAIN indexes
                  THEN [indexes EXCEPT ![name] = @ \cup IndexKeys]
                  ELSE indexes @@ (name :> IndexKeys)

NoResponse ==
    [kind |-> "pending", status_code |-> 0, detail |-> None, collection |-> None,
     documents_inserted |-> 0]

HTTPException(code, text) ==
    [kind |-> "HTTPException", status_code |-> code, detail |-> text,
     collection |-> None, documents_inserted |-> 0]

Success(name, n) ==
    [kind |-> "success", status_code |-> 200, detail |-> None, collection |-> name,
     documents_inserted |-> n]

NoFailure == [happened |-> FALSE, reads |-> 0, writes |-> 0, kept |-> 0, cause |-> None]

\* The local state of the batching loop, with the collection's documents (docs)
\* and the store's own record of what it persisted for this request (persisted).
LoopState(r) ==
    [batch |-> batch[r], inserted |-> inserted_count[r], docs |-> db[collection_name[r]],
     persisted |-> written[r], writes |-> writes[r], done |-> 0, failed |-> FALSE,
     kept |-> 0, failedWrite |-> 0]

\* Faulty variant: a failed write is compensated by deleting what the request had stored.
insert_many_rollback(st, failNo, keep) ==
    IF st.done + 1 = failNo
    THEN [st EXCEPT !.docs = SubSeq(@, 1, Len(@) - Len(st.persisted)),
                    !.writes = @ + 1, !.done = @ + 1, !.failed = TRUE, !.kept = 0,
                    !.failedWrite = st.writes + 1]
    ELSE [st EXCEPT !.docs = @ \o st.batch,
                    !.persisted = @ \o st.batch,
                    !.inserted = @ + Len(st.batch),
                    !.batch = <<>>,
                    !.writes = @ + 1, !.done = @ + 1]

\* collection.insert_many(batch); inserted_count += len(batch); batch = []
\* The failNo-th call of this step raises BulkWriteError; the write is ordered, so
\* the documents before the failing one (keep of them) are persisted.
insert_many(st, failNo, keep) ==
    IF st.done + 1 = failNo
    THEN LET k == Min(keep, Len(st.batch) - 1) IN
         [st EXCEPT !.docs = @ \o SubSeq(st.batch, 1, k),
                    !.persisted = @ \o SubSeq(st.batch, 1, k),
                    !.writes = @ + 1, !.done = @ + 1, !.failed = TRUE, !.kept = k,
                    !.failedWrite = st.writes + 1]
    ELSE [st EXCEPT !.docs = @ \o st.batch,
                    !.persisted = @ \o st.batch,
                    !.inserted = @ + Len(st.batch),
                    !.batch = <<>>,
                    !.writes = @ + 1, !.done = @ + 1]

\* for line in lines: ... (main.py:78-88); a raised BulkWriteError leaves the loop
RECURSIVE ProcessLines(_, _, _, _)
ProcessLines(lines, st, failNo, keep) ==
    IF lines = <<>> \/ st.failed THEN st
    ELSE IF ~JsonValid(Head(lines))
         THEN ProcessLines(Tail(lines), st, failNo, keep)
         ELSE LET st1 == [st EXCEPT !.batch = Append(@, json_loads(Head(lines)))] IN
              IF Len(st1.batch) >= batch_size
              THEN ProcessLines(Tail(lines), insert_many(st1, failNo, keep), failNo, keep)
              ELSE ProcessLines(Tail(lines), st1, failNo, keep)

\* if batch: insert_many(batch) (main.py:91-93)
FinalFlush(st, failNo, keep) ==
    IF st.batch # <<>> THEN insert_many(st, failNo, keep) ELSE st

\* The uploaded texts: up to MaxLines lines, the last with or without its newline.
LineTexts == {"{a}", "{b}", "{a", "x", ""}

RECURSIVE JoinLines(_)
JoinLines(ls) == IF ls = <<>> THEN "" ELSE Head(ls) \o "\n" \o JoinLines(Tail(ls))

Streams ==
    LET full == {JoinLines(ls) : ls \in UNION {[1..n -> LineTexts] : n \in 0..MaxLines}}
    IN full \cup {SubSeq(s, 1, Len(s) - 1) : s \in full \ {""}}

Filenames == {"t.jsonl", "T.JSON", "a.log", "x.txt", "a.json.gz", "json"}

\* Lines 49-68: the extension check, the collection name, the four indexes.
Begin(r, files, texts) ==
    /\ pc[r] = "idle"
    /\ \E fn \in files, s \in texts :
        /\ filename' = [filename EXCEPT ![r] = fn]
        /\ IF ~ExtensionAllowed(fn)
           THEN /\ pc' = [pc EXCEPT ![r] = "rejected"]
                /\ response' = [response EXCEPT ![r] =
                                   HTTPException(400, "File must be .json, .jsonl, or .log")]
                /\ UNCHANGED <<db, indexes, stream, collection_name>>
           ELSE \E suffix \in Suffixes :
                /\ collection_name' = [collection_name EXCEPT ![r] = CollectionName(clock, suffix)]
                /\ create_indexes(CollectionName(clock, suffix))
                /\ stream' = [stream EXCEPT ![r] = s]
                /\ pc' = [pc EXCEPT ![r] = "reading"]
                /\ UNCHANGED response
    /\ UNCHANGED <<clock, pos, batch, inserted_count, reads, writes, written, failure,
                   analyticsVars>>

\* What one pass of the while loop leaves behind (main.py:71-102): st is the loop
\* state after the pass, n the bytes read, finished whether the stream had ended.
Finish(r, st, n, finished) ==
    /\ pos' = [pos EXCEPT ![r] = @ + n]
    /\ reads' = [reads EXCEPT ![r] = @ + 1]
    /\ batch' = [batch EXCEPT ![r] = st.batch]
    /\ inserted_count' = [inserted_count EXCEPT ![r] = st.inserted]
    /\ db' = [db EXCEPT ![collection_name[r]] = st.docs]
    /\ written' = [written EXCEPT ![r] = st.persisted]
    /\ writes' = [writes EXCEPT ![r] = st.writes]
    /\ IF st.failed
       THEN /\ pc' = [pc EXCEPT ![r] = "failed"]
            /\ response' = [response EXCEPT ![r] = HTTPException(500, "BulkWriteError")]
            /\ failure' = [failure EXCEPT ![r] =
                   [happened |-> TRUE, reads |-> reads[r] + 1, writes |-> st.failedWrite,
                    kept |-> st.kept, cause |-> "BulkWriteError"]]
       ELSE /\ failure' = failure
            /\ IF finished
               THEN /\ pc' = [pc EXCEPT ![r] = "done"]
                    /\ response' = [response EXCEPT ![r] =
                                       Success(collection_name[r], st.inserted)]
               ELSE UNCHANGED <<pc, response>>
    /\ UNCHANGED <<clock, indexes, filename, stream, collection_name, analyticsVars>>

\* chunk = await file.read(1024 * 1024) returned bytes: split, parse, batch, write.
ReadChunk(r) ==
    /\ pc[r] = "reading"
    /\ pos[r] < Len(stream[r])
    /\ LET n == Min(ChunkSize, Len(stream[r]) - pos[r])
           chunk == SubSeq(stream[r], pos[r] + 1, pos[r] + n)
           lines == splitlines(chunk)
       IN \E failNo \in 0..Len(lines), keep \in 0..(batch_size - 1) :
              Finish(r, ProcessLines(lines, LoopState(r), failNo, keep), n, FALSE)

\* chunk = await file.read(...) returned b"": the loop ends, the rest is written.
EndOfStream(r) ==
    /\ pc[r] = "reading"
    /\ pos[r] = Len(stream[r])
    /\ \E failNo \in 0..1, keep \in 0..(batch_size - 1) :
           Finish(r, FinalFlush(LoopState(r), failNo, keep), 0, TRUE)

\* A second passes.
Tick ==
    /\ clock < MaxClock
    /\ clock' = clock + 1
    /\ UNCHANGED <<db, indexes, pc, filename, stream, pos, batch, inserted_count,
                   collection_name, response, reads, writes, written, failure,
                   analyticsVars>>

NoQuery == [op |-> "none"]
NoResult == [status |-> 0]

IdleAnalytics ==
    /\ query = NoQuery
    /\ result = NoResult

NoRequests ==
    /\ clock = 0
    /\ pc = [r \in Reqs |-> "idle"]
    /\ filename = [r \in Reqs |-> None]
    /\ stream = [r \in Reqs |-> ""]
    /\ pos = [r \in Reqs |-> 0]
    /\ batch = [r \in Reqs |-> <<>>]
    /\ inserted_count = [r \in Reqs |-> 0]
    /\ collection_name = [r \in Reqs |-> None]
    /\ response = [r \in Reqs |-> NoResponse]
    /\ reads = [r \in Reqs |-> 0]
    /\ writes = [r \in Reqs |-> 0]
    /\ written = [r \in Reqs |-> <<>>]
    /\ failure = [r \in Reqs |-> NoFailure]

InitIngest ==
    /\ NoRequests
    /\ db = <<>>
    /\ indexes = <<>>

\* One upload, over every filename and every stream of the model.
InitUpload == InitIngest /\ IdleAnalytics

NextUpload ==
    \/ Begin(1, Filenames, Streams)
    \/ ReadChunk(1)
    \/ EndOfStream(1)

SpecUpload == InitUpload /\ [][NextUpload]_vars

\* Concurrent uploads: the requests interleave at their awaits (file.read).
ConcurrentFiles == {"t.jsonl", "x.txt"}
ConcurrentStreams == {"{a}\n{b}\n{a}\n{b}\n", "{b}"}

InitConcurrent == InitIngest /\ IdleAnalytics

NextConcurrent ==
    \/ \E r \in Reqs : Begin(r, ConcurrentFiles, ConcurrentStreams)
    \/ \E r \in Reqs : ReadChunk(r)
    \/ \E r \in Reqs : EndOfStream(r)
    \/ Tick

SpecConcurrent == InitConcurrent /\ [][NextConcurrent]_vars

(***************************************************************************)
(* What the specification asks of an upload: the stream's lines are those  *)
(* of the whole text, whatever the chunks.                                 *)
(***************************************************************************)
RECURSIVE ParseAll(_)
ParseAll(ls) ==
    IF ls = <<>> THEN <<>>
    ELSE IF JsonValid(Head(ls)) THEN <<json_loads(Head(ls))>> \o ParseAll(Tail(ls))
         ELSE ParseAll(Tail(ls))

\* The events of the well-formed lines of text s, in order.
WellFormedEvents(s) == ParseAll(splitlines(s))

\* Offset of the first character of line i of ls within the text (0-based).
RECURSIVE LineStart(_, _)
LineStart(ls, i) == IF i = 1 THEN 0 ELSE LineStart(ls, i - 1) + Len(ls[i - 1]) + 1

\* Line i of text s lies on both sides of a boundary between two read chunks.
SpansChunks(s, i) ==
    LET ls == splitlines(s)
        first == LineStart(ls, i)
        last == first + Len(ls[i]) - 1
    IN \E k \in 1..Len(s) : first < k * ChunkSize /\ k * ChunkSize <= last

Count(seq, x) == Cardinality({i \in 1..Len(seq) : seq[i] = x})

\* C1: an upload that completes returns documents_inserted = N, the number of
\* well-formed lines of the stream, and the collection holds exactly those N
\* events, however the stream falls into read chunks.
CE_C1_InsertedCountIsWellFormedLines ==
    \A r \in Reqs :
        pc[r] = "done" =>
            /\ response[r].documents_inserted = Len(WellFormedEvents(stream[r]))
            /\ written[r] = WellFormedEvents(stream[r])

\* C2: a well-formed line that spans the boundary between two read chunks is
\* rejoined and stored exactly once: when the upload completes, the event of such
\* a line is stored as many times as the stream has lines carrying it.
CE_C2_SpanningLineCountedOnce ==
    \A r \in Reqs :
        pc[r] = "done" =>
            \A i \in 1..Len(splitlines(stream[r])) :
                LET line == splitlines(stream[r])[i] IN
                (JsonValid(line) /\ SpansChunks(stream[r], i)) =>
                    Count(db[collection_name[r]], json_loads(line))
                        = Count(splitlines(stream[r]), line)

CE_C4_CollectionNamesDistinct ==
    \A r1, r2 \in Reqs :
        (r1 # r2 /\ collection_name[r1] # None /\ collection_name[r2] # None)
            => collection_name[r1] # collection_name[r2]

\* The extension of a filename hint: its text from the last dot on, lower-cased.
HintExtension(name) ==
    IF \E i \in 1..Len(name) : CharAt(name, i) = "."
    THEN LET i == CHOOSE k \in 1..Len(name) :
                     /\ CharAt(name, k) = "."
                     /\ \A j \in (k + 1)..Len(name) : CharAt(name, j) # "."
         IN Lower(SubSeq(name, i, Len(name)))
    ELSE ""

\* C5: an upload whose filename extension is none of .json, .jsonl, .log is
\* rejected with status 400 having allocated no collection name, created no
\* collection and no index, read no byte and written no document.
Thm_C5_UnsupportedFormatBeforeStorage ==
    \A r \in Reqs :
        (filename[r] # None /\ HintExtension(filename[r]) \notin {".json", ".jsonl", ".log"}) =>
            /\ pc[r] = "rejected"
            /\ response[r].kind = "HTTPException"
            /\ response[r].status_code = 400
            /\ collection_name[r] = None
            /\ reads[r] = 0 /\ pos[r] = 0 /\ writes[r] = 0 /\ written[r] = <<>>
            /\ DOMAIN db = {collection_name[q] : q \in Reqs} \ {None}
            /\ DOMAIN indexes = DOMAIN db

\* A rejected upload whose name holds an allowed extension, but not at its end.
Wit_C5 == \E r \in Reqs : pc[r] = "rejected" /\ filename[r] = "a.json.gz"

(***************************************************************************)
(* Events (the documents of a collection).  An argument value is a string, *)
(* a record {ip, port} with either field possibly missing, or a list of    *)
(* DNS question records (each reduced to its query field).                 *)
(***************************************************************************)
Str(s) == [kind |-> "str", text |-> s, fields |-> {}, ip |-> "", port |-> 0, items |-> <<>>]

Dict(fs, i, p) ==
    [kind |-> "dict", text |-> "", fields |-> fs, ip |-> i, port |-> p, items |-> <<>>]

List(qs) == [kind |-> "list", text |-> "", fields |-> {}, ip |-> "", port |-> 0, items |-> qs]

Arg(n, v) == [name |-> n, value |-> v]

Event(en, as, path) ==
    [eventName |-> en, args |-> as, processName |-> "proc", processId |-> 7,
     parentProcessId |-> 1, executable |-> path, timestamp |-> 0]

Range(seq) == {seq[i] : i \in 1..Len(seq)}

DigitChars == "0123456789"

\* str(n) for an int n >= 0
RECURSIVE IntToStr(_)
IntToStr(n) ==
    IF n < 10 THEN CharAt(DigitChars, n + 1)
    ELSE IntToStr(n \div 10) \o CharAt(DigitChars, (n % 10) + 1)

(***************************************************************************)
(* get_stats (main.py:119-266).                                            *)
(***************************************************************************)
\* Faulty variant: the list without its first entry.
SENSITIVE_PATHS_short == <<"/etc/shadow", "/root", ".ssh">>

SENSITIVE_PATHS == <<"/etc/passwd", "/etc/shadow", "/root", ".ssh">>

SHELL_BINARIES == <<"/bin/sh", "/bin/bash", "sh", "bash">>

\* {"$unwind": "$args"}, {"$match": {"args.name": n}} on one event: its values
RECURSIVE ArgValues(_, _)
ArgValues(as, n) ==
    IF as = <<>> THEN <<>>
    ELSE IF Head(as).name = n THEN <<Head(as).value>> \o ArgValues(Tail(as), n)
         ELSE ArgValues(Tail(as), n)

\* {"$match": {"eventName": en}}, {"$unwind": "$args"}, {"$match": {"args.name": n}}
RECURSIVE Unwound(_, _, _)
Unwound(c, en, n) ==
    IF c = <<>> THEN <<>>
    ELSE IF Head(c).eventName = en
         THEN ArgValues(Head(c).args, n) \o Unwound(Tail(c), en, n)
         ELSE Unwound(Tail(c), en, n)

\* {"$group": {"_id": "$args.value", "count": {"$sum": 1}}}
Groups(vals) == {[_id |-> v, count |-> Count(vals, v)] : v \in Range(vals)}

\* {"$sort": {"count": -1}}: the orders the store may return the groups in
SortedOrders(gs) ==
    {o \in [1..Cardinality(gs) -> gs] :
        /\ \A i, j \in 1..Cardinality(gs) : i # j => o[i] # o[j]
        /\ \A i, j \in 1..Cardinality(gs) : i < j => o[i].count >= o[j].count}

\* {item["_id"]: item["count"] for item in ...} over string values
TextCounts(vals) ==
    [t \in {v.text : v \in Range(vals)} |-> Count(vals, Str(t))]

syscall_profile(c) ==
    [en \in {c[i].eventName : i \in 1..Len(c)} |->
        Cardinality({i \in 1..Len(c) : c[i].eventName = en})]

file_access(c) == TextCounts(Unwound(c, "openat", "pathname"))

executed_commands(c) == TextCounts(Unwound(c, "execve", "pathname"))

\* Lines 206-211: the key an addr value is counted under
AddrKey(addr) ==
    IF addr.kind = "dict"
    THEN LET ip == IF "ip" \in addr.fields THEN addr.ip ELSE "unknown"
             hasPort == "port" \in addr.fields /\ addr.port # 0
         IN IF hasPort THEN ip \o ":" \o IntToStr(addr.port) ELSE ip
    ELSE addr.text

\* for item in ip_results: ... ip_usage[key] = item["count"]
RECURSIVE ip_usage(_, _)
ip_usage(items, acc) ==
    IF items = <<>> THEN acc
    ELSE LET key == AddrKey(Head(items)._id)
             next == [k \in DOMAIN acc \cup {key} |->
                         IF k = key THEN Head(items).count ELSE acc[k]]
         IN ip_usage(Tail(items), next)

RECURSIVE Flatten(_)
Flatten(vals) == IF vals = <<>> THEN <<>> ELSE Head(vals).items \o Flatten(Tail(vals))

\* the dns pipeline: the second $unwind flattens each question list
dns_usage(c) ==
    LET qs == Flatten(Unwound(c, "net_packet_dns_request", "dns_questions"))
    IN [q \in Range(qs) |-> Count(qs, q)]

\* any(s in path for s in needles)
AnyIn(needles, path) == \E i \in 1..Len(needles) : Contains(path, needles[i])

sensitive_hits(fa) == {path \in DOMAIN fa : AnyIn(SENSITIVE_PATHS, path)}

shell_spawned(ec) == \E cmd \in DOMAIN ec : AnyIn(SHELL_BINARIES, cmd)

\* Lines 241-253
risk_flags(fa, ec, ips) ==
    (IF sensitive_hits(fa) # {} THEN <<"sensitive_file_access">> ELSE <<>>)
    \o (IF shell_spawned(ec) THEN <<"shell_spawned">> ELSE <<>>)
    \o (IF DOMAIN ips # {} THEN <<"network_activity">> ELSE <<>>)
    \o (IF \E path \in DOMAIN fa : Contains(path, "/proc") THEN <<"procfs_access">> ELSE <<>>)

NotFound == [status |-> 404, detail |-> "Collection not found"]

Report(c, ip_results) ==
    LET fa == file_access(c)
        ec == executed_commands(c)
        ips == ip_usage(ip_results, <<>>)
    IN [status |-> 200,
        total_events |-> Len(c),
        syscall_profile |-> syscall_profile(c),
        file_access |-> fa,
        executed_commands |-> ec,
        ips |-> ips,
        dns_records |-> dns_usage(c),
        risk_flags |-> risk_flags(fa, ec, ips)]

\* The collection the analytics specifications start with, and a name of none.
Stored == CollectionName(0, "0a1b2c")
Names == {Stored, CollectionName(0, "ffffff")}

\* An upload has left collection Stored holding the events c.
Holding(c) ==
    /\ NoRequests
    /\ db = (Stored :> c)
    /\ indexes = (Stored :> IndexKeys)
    /\ result = NoResult

get_stats(name) ==
    /\ query' = [op |-> "get_stats", collection_name |-> name]
    /\ IF name \notin DOMAIN db
       THEN result' = NotFound
       ELSE \E ip_results \in SortedOrders(Groups(Unwound(db[name], "connect", "addr"))) :
                result' = Report(db[name], ip_results)
    /\ UNCHANGED ingestVars

\* Bound: events of a collection under get_stats.
MaxStatsEvents == 3

StatsEvents ==
    {Event("openat", <<Arg("pathname", Str(p))>>, "/usr/bin/x") :
        p \in {"/etc/passwd", "/tmp/x", "/proc/cpuinfo"}}
    \cup {Event("openat", <<Arg("flags", Str("O_RDONLY")), Arg("pathname", Str("/proc/1/root"))>>,
                "/usr/bin/x")}
    \cup {Event("execve", <<Arg("pathname", Str(p))>>, "/usr/bin/x") :
        p \in {"/bin/bash", "/usr/bin/python"}}
    \cup {Event("connect", <<Arg("addr", a)>>, "/usr/bin/x") :
        a \in {Dict({"ip", "port"}, "10.0.0.1", 443), Dict({"ip"}, "10.0.0.1", 0),
               Dict({"ip", "port"}, "10.0.0.1", 0), Str("10.0.0.1"), Dict({}, "", 0)}}
    \cup {Event("net_packet_dns_request",
                <<Arg("dns_questions", List(<<"evil.com", "evil.com">>))>>, "/usr/bin/x")}

InitStats ==
    /\ \E c \in UNION {[1..n -> StatsEvents] : n \in 0..MaxStatsEvents} : Holding(c)
    /\ query = NoQuery

NextStats == \E name \in Names : get_stats(name)

SpecStats == InitStats /\ [][NextStats]_vars

\* The flags a report must carry, read off the maps it returns.
FlagHolds(flag, rep) ==
    CASE flag = "sensitive_file_access" ->
            \E path \in DOMAIN rep.file_access :
                \E needle \in {"/etc/passwd", "/etc/shadow", "/root", ".ssh"} :
                    Contains(path, needle)
      [] flag = "shell_spawned" ->
            \E cmd \in DOMAIN rep.executed_commands :
                \E needle \in {"/bin/sh", "/bin/bash", "sh", "bash"} : Contains(cmd, needle)
      [] flag = "network_activity" -> DOMAIN rep.ips # {}
      [] flag = "procfs_access" ->
            \E path \in DOMAIN rep.file_access : Contains(path, "/proc")

FlagOrder == <<"sensitive_file_access", "shell_spawned", "network_activity", "procfs_access">>

\* C8: the risk_flags of a report are the four flags in their fixed order, each
\* present once exactly when its predicate holds of the report's maps; an empty
\* collection has none.
Thm_C8_RiskFlagsExact ==
    (query.op = "get_stats" /\ result.status = 200) =>
        /\ result.risk_flags = SelectSeq(FlagOrder, LAMBDA f : FlagHolds(f, result))
        /\ db[query.collection_name] = <<>> => result.risk_flags = <<>>

\* A report that carries the first and the last flag but not the two between.
Wit_C8 ==
    /\ query.op = "get_stats"
    /\ result.status = 200
    /\ result.risk_flags = <<"sensitive_file_access", "procfs_access">>
    /\ Len(db[query.collection_name]) = 3

\* C9: network_activity.ips counts every addr value of the connect events under
\* its normalized key (ip:port, ip, or the stringified value): each key's count
\* is the number of addr values that normalize to it, so the counts sum to the
\* number of addr values.
CE_C9_IpCountsPerNormalizedKey ==
    (query.op = "get_stats" /\ result.status = 200) =>
        LET addrs == Unwound(db[query.collection_name], "connect", "addr")
            keys == {AddrKey(a) : a \in Range(addrs)}
        IN result.ips =
               [k \in keys |-> Cardinality({i \in 1..Len(addrs) : AddrKey(addrs[i]) = k})]

(***************************************************************************)
(* get_specific_data (main.py:268-371).                                    *)
(***************************************************************************)
\* if dns: / if command: / if file: -- None and "" are both false
Truthy(x) == x # None /\ x # ""

\* Lines 288-298: the DNS query document
MatchesDns(e, dns) ==
    /\ e.eventName = "net_packet_dns_request"
    /\ \E i \in 1..Len(e.args) :
           /\ e.args[i].name = "dns_questions"
           /\ e.args[i].value.kind = "list"
           /\ \E q \in 1..Len(e.args[i].value.items) : e.args[i].value.items[q] = dns

\* Lines 317-325 and 345-353: eventName en with an argument pathname = v
MatchesPathname(e, en, v) ==
    /\ e.eventName = en
    /\ \E i \in 1..Len(e.args) : e.args[i].name = "pathname" /\ e.args[i].value = Str(v)

MatchesCommand(e, command) == MatchesPathname(e, "execve", command)

MatchesFile(e, file) == MatchesPathname(e, "openat", file)

Matches(e, kind, v) ==
    CASE kind = "dns" -> MatchesDns(e, v)
      [] kind = "command" -> MatchesCommand(e, v)
      [] kind = "file" -> MatchesFile(e, v)

\* collection.find(query): the matching documents in stored order
RECURSIVE Find(_, _, _)
Find(c, kind, v) ==
    IF c = <<>> THEN <<>>
    ELSE IF Matches(Head(c), kind, v) THEN <<Head(c)>> \o Find(Tail(c), kind, v)
         ELSE Find(Tail(c), kind, v)

Abs(n) == IF n < 0 THEN -n ELSE n

\* cursor.skip(offset).limit(limit), for offset >= 0 (skip raises ValueError on a
\* negative offset).  A limit of 0 is no limit; a negative limit asks the server
\* for one batch of at most -limit documents.
SkipLimit(docs, offset, limit) ==
    LET rest == SubSeq(docs, offset + 1, Len(docs))
    IN IF limit = 0 THEN rest ELSE SubSeq(rest, 1, Min(Abs(limit), Len(rest)))

\* Lines 303-309 and 358-364: the record of the dns and the file branch
Projected(e) ==
    [process |-> e.processName, process_id |-> e.processId,
     executable |-> e.executable, timestamp |-> e.timestamp, args |-> e.args]

\* Lines 330-337: the record of the command branch
ProjectedCommand(e) ==
    [process |-> e.processName, process_id |-> e.processId,
     parent_process_id |-> e.parentProcessId,
     executable |-> e.executable, timestamp |-> e.timestamp, args |-> e.args]

Project(e, kind) == IF kind = "command" THEN ProjectedCommand(e) ELSE Projected(e)

ResponseKey(kind) ==
    CASE kind = "dns" -> "dns_calls"
      [] kind = "command" -> "command_calls"
      [] kind = "file" -> "file_access"

Raised(code, text) ==
    [status |-> code, detail |-> text, key |-> None, indicator |-> None, results |-> <<>>]

\* One branch: find, skip, limit, project, return {"specific": {key: {v: results}}}
Branch(c, kind, v, limit, offset) ==
    IF offset < 0 THEN Raised(500, "ValueError")
    ELSE LET docs == SkipLimit(Find(c, kind, v), offset, limit)
         IN [status |-> 200, detail |-> None, key |-> ResponseKey(kind), indicator |-> v,
             results |-> [i \in 1..Len(docs) |-> Project(docs[i], kind)]]

\* Faulty variant: the command branch is tried before the dns branch.
SpecificData_commandFirst(c, dns, command, file, limit, offset) ==
    IF Truthy(command) THEN Branch(c, "command", command, limit, offset)
    ELSE IF Truthy(dns) THEN Branch(c, "dns", dns, limit, offset)
    ELSE IF Truthy(file) THEN Branch(c, "file", file, limit, offset)
    ELSE Raised(400, "Provide one of: dns, command, or file query parameter")

SpecificData(c, dns, command, file, limit, offset) ==
    IF Truthy(dns) THEN Branch(c, "dns", dns, limit, offset)
    ELSE IF Truthy(command) THEN Branch(c, "command", command, limit, offset)
    ELSE IF Truthy(file) THEN Branch(c, "file", file, limit, offset)
    ELSE Raised(400, "Provide one of: dns, command, or file query parameter")

\* The parameter values the model draws from.
DnsParams == {None, "", "evil.com"}
CommandParams == {None, "", "/bin/ls"}
FileParams == {None, "", "/bin/ls"}
\* Bounds: the largest limit and offset of a request (the smallest of each is -1).
MaxLimit == 2
MaxOffset == 1

Requests ==
    [op : {"get_specific_data"}, collection_name : Names, dns : DnsParams,
     command : CommandParams, file : FileParams, limit : -1..MaxLimit,
     offset : -1..MaxOffset]

\* The handler, on the request that has arrived (query) and is not yet answered.
get_specific_data ==
    /\ query.op = "get_specific_data"
    /\ result = NoResult
    /\ result' = IF query.collection_name \notin DOMAIN db
                 THEN Raised(404, "Collection not found")
                 ELSE SpecificData(db[query.collection_name], query.dns, query.command,
                                   query.file, query.limit, query.offset)
    /\ UNCHANGED <<query, ingestVars>>

\* Bound: events of a collection under get_specific_data.
MaxQueryEvents == 3

QueryEvents ==
    {Event("net_packet_dns_request", <<Arg("dns_questions", List(<<"evil.com">>))>>, "/usr/bin/x"),
     Event("net_packet_dns_request",
           <<Arg("src", Str("10.0.0.1")), Arg("dns_questions", List(<<"good.com", "evil.com">>))>>,
           None),
     Event("execve", <<Arg("pathname", Str("/bin/ls")), Arg("argv", Str("-l"))>>, "/bin/ls"),
     Event("execve", <<Arg("pathname", Str("/bin/sh"))>>, "/bin/sh"),
     Event("openat", <<Arg("pathname", Str("/bin/ls"))>>, "/usr/bin/x"),
     Event("openat", <<Arg("pathname", Str("/etc/passwd"))>>, None)}

\* The stored events carry their position as timestamp, which tells them apart.
Stamped(c) == [i \in 1..Len(c) |-> [c[i] EXCEPT !.timestamp = i]]

\* A collection, and a request that has arrived.
InitQuery ==
    /\ \E c \in UNION {[1..n -> QueryEvents] : n \in 0..MaxQueryEvents} : Holding(Stamped(c))
    /\ query \in Requests

NextQuery == get_specific_data

SpecQuery == InitQuery /\ [][NextQuery]_vars

Answered == query.op = "get_specific_data" /\ result # NoResult

Present(x) == x # None /\ x # ""

\* The response to a request that names the one indicator v of kind kind.
ResponseFor(c, kind, v, limit, offset) ==
    IF offset < 0 THEN Raised(500, "ValueError")
    ELSE LET docs == SkipLimit(Find(c, kind, v), offset, limit)
         IN [status |-> 200, detail |-> None,
             key |-> CASE kind = "dns" -> "dns_calls"
                       [] kind = "command" -> "command_calls"
                       [] kind = "file" -> "file_access",
             indicator |-> v,
             results |-> [i \in 1..Len(docs) |-> Project(docs[i], kind)]]

\* C6: on an existing collection the answer is the one for the first present
\* indicator in the order dns, command, file, whatever the others are; with none
\* present (absent or empty) the request fails with status 400 and no results.
Thm_C6_IndicatorPrecedence ==
    (Answered /\ query.collection_name \in DOMAIN db) =>
        LET c == db[query.collection_name] IN
        IF Present(query.dns)
        THEN result = ResponseFor(c, "dns", query.dns, query.limit, query.offset)
        ELSE IF Present(query.command)
        THEN result = ResponseFor(c, "command", query.command, query.limit, query.offset)
        ELSE IF Present(query.file)
        THEN result = ResponseFor(c, "file", query.file, query.limit, query.offset)
        ELSE result.status = 400 /\ result.results = <<>>

\* All three indicators supplied, each with events it matches: dns is honoured.
Wit_C6 ==
    /\ Answered
    /\ Present(query.dns) /\ Present(query.command) /\ Present(query.file)
    /\ Find(db[Stored], "command", query.command) # <<>>
    /\ Find(db[Stored], "file", query.file) # <<>>
    /\ result.status = 200
    /\ result.key = "dns_calls"
    /\ result.results # <<>>

\* The indicator a request resolves to, as <<kind, value>>, or <<>> with none.
Resolved ==
    IF Present(query.dns) THEN <<"dns", query.dns>>
    ELSE IF Present(query.command) THEN <<"command", query.command>>
    ELSE IF Present(query.file) THEN <<"file", query.file>>
    ELSE <<>>

\* C7: for limit >= 0 and offset >= 0, the results are the matching events at
\* positions offset .. offset+limit-1 of all matching events in stored order, so
\* never more than limit of them, limit = 0 included.
CE_C7_PageIsOffsetLimitSlice ==
    (Answered /\ result.status = 200 /\ query.limit >= 0 /\ query.offset >= 0) =>
        LET all == Find(db[query.collection_name], Resolved[1], Resolved[2])
            page == SubSeq(all, query.offset + 1, Min(query.offset + query.limit, Len(all)))
        IN /\ Len(result.results) <= query.limit
           /\ [i \in 1..Len(result.results) |-> result.results[i].timestamp]
                  = [i \in 1..Len(page) |-> page[i].timestamp]

\* C10: every returned record, of whichever indicator kind, exposes the same
\* fields: process name, process id, parent process id, executable path,
\* timestamp and args.
CE_C10_UniformProjection ==
    (Answered /\ result.status = 200) =>
        \A i \in 1..Len(result.results) :
            DOMAIN result.results[i] =
                {"process", "process_id", "parent_process_id", "executable", "timestamp", "args"}

====
